---- MODULE Spec2Model ----
(***************************************************************************)
(* Model of skills/design-evolve/scripts/eval_helper.py: the canvas        *)
(* operations (place_image, create_frames, detect_annotations,             *)
(* place_evolved_image, get_latest_images, ...) that ship a JavaScript     *)
(* snippet to the eval server, and the snippets' effect on the tldraw      *)
(* page.  The page is a sequence of shape records; every operation is one  *)
(* action that takes the transport outcome of its single request as input. *)
(***************************************************************************)
EXTENDS Integers, Sequences, FiniteSets, TLC

VARIABLES canvas, assets, last, written, nextId

vars == <<canvas, assets, last, written, nextId>>

----------------------------------------------------------------------------
(* JavaScript Number arithmetic (IEEE-754 binary64, round to nearest even) *)
(* for positive operands.  A Number is [m, e]: m is the 53-bit significand *)
(* as a sequence of bits, most significant first, e the exponent of its    *)
(* last bit, so that the value is ToInt(m) * 2^e.                          *)

MantissaBits == 53
LimbBits == 16          \* long arithmetic goes in limbs of 16 bits
LimbBase == 65536
QuotientLimbs == 5      \* 80 fractional bits of a quotient are computed

Zeros(k) == [i \in 1..k |-> 0]

\* the value of a sequence of at most 30 bits, most significant first
RECURSIVE ToInt(_)
ToInt(bits) ==
    IF bits = <<>> THEN 0
    ELSE IF Len(bits) = 1 THEN bits[1]
    ELSE LET half == Len(bits) \div 2
         IN  ToInt(SubSeq(bits, 1, half)) * 2 ^ (Len(bits) - half)
               + ToInt(SubSeq(bits, half + 1, Len(bits)))

\* the bits of limbs, LimbBits for each
LimbsToBits(limbs) ==
    [i \in 1..(Len(limbs) * LimbBits) |->
        (limbs[((i - 1) \div LimbBits) + 1]
            \div 2 ^ (LimbBits - 1 - ((i - 1) % LimbBits))) % 2]

\* the limbs of a bit sequence whose length is a multiple of LimbBits
BitsToLimbs(bits) ==
    [j \in 1..(Len(bits) \div LimbBits) |->
        ToInt(SubSeq(bits, LimbBits * (j - 1) + 1, LimbBits * j))]

StripLeadingZeros(bits) ==
    LET ones == {i \in 1..Len(bits) : bits[i] = 1}
    IN  IF ones = {} THEN <<>>
        ELSE SubSeq(bits, CHOOSE i \in ones : \A j \in ones : i <= j, Len(bits))

\* the binary representation of an integer 0 <= n < 2^30, no leading zero
Bits(n) == StripLeadingZeros([i \in 1..30 |-> (n \div 2 ^ (30 - i)) % 2])

\* the first k limbs of the binary expansion of r / d, for 0 <= r < d < 2^14
RECURSIVE DivLimbs(_, _, _)
DivLimbs(r, d, k) ==
    IF k = 0 THEN <<>>
    ELSE <<(r * LimbBase) \div d>> \o DivLimbs((r * LimbBase) % d, d, k - 1)

\* the remainder left after those k limbs
RECURSIVE DivRem(_, _, _)
DivRem(r, d, k) ==
    IF k = 0 THEN r ELSE DivRem((r * LimbBase) % d, d, k - 1)

\* bits + 1; a sequence of ones becomes a one followed by zeros, one longer
IncBits(bits) ==
    LET zeros == {i \in 1..Len(bits) : bits[i] = 0}
    IN  IF zeros = {} THEN <<1>> \o Zeros(Len(bits))
        ELSE LET j == CHOOSE i \in zeros : \A k \in zeros : k <= i
             IN  [i \in 1..Len(bits) |->
                    IF i < j THEN bits[i] ELSE IF i = j THEN 1 ELSE 0]

\* limbs * n + carry, for an integer 0 <= n < 2^14
RECURSIVE MulLimbs(_, _, _)
MulLimbs(limbs, n, carry) ==
    IF limbs = <<>> THEN <<carry>>
    ELSE LET v == limbs[Len(limbs)] * n + carry
         IN  Append(MulLimbs(SubSeq(limbs, 1, Len(limbs) - 1), n, v \div LimbBase),
                    v % LimbBase)

\* bits * n
MulBits(bits, n) ==
    LET pad == (LimbBits - (Len(bits) % LimbBits)) % LimbBits
    IN  LimbsToBits(MulLimbs(BitsToLimbs(Zeros(pad) \o bits), n, 0))

\* Round the exact value ToInt(bits) * 2^e (+ something below the last bit
\* when sticky) to a Number: nearest, ties to even.  bits[1] = 1.
RoundToNumber(bits, e, sticky) ==
    IF Len(bits) <= MantissaBits
    THEN [m |-> bits \o Zeros(MantissaBits - Len(bits)),
          e |-> e - (MantissaBits - Len(bits))]
    ELSE LET m0    == SubSeq(bits, 1, MantissaBits)
             guard == bits[MantissaBits + 1]
             rest  == sticky \/ \E i \in (MantissaBits + 2)..Len(bits) : bits[i] = 1
             up    == guard = 1 /\ (rest \/ m0[MantissaBits] = 1)
             m1    == IF up THEN IncBits(m0) ELSE m0
             e1    == e + (Len(bits) - MantissaBits)
         IN  IF Len(m1) > MantissaBits
             THEN [m |-> SubSeq(m1, 1, MantissaBits), e |-> e1 + 1]
             ELSE [m |-> m1, e |-> e1]

\* a / b as JavaScript computes it, for integers a > 0, 0 < b < 2^14
NumDiv(a, b) ==
    LET all == Bits(a \div b) \o LimbsToBits(DivLimbs(a % b, b, QuotientLimbs))
    IN  RoundToNumber(StripLeadingZeros(all), 0 - QuotientLimbs * LimbBits,
                      DivRem(a % b, b, QuotientLimbs) # 0)

\* n * x as JavaScript computes it, for an integer 0 < n < 2^14 and a Number x
NumMulInt(n, x) == RoundToNumber(StripLeadingZeros(MulBits(x.m, n)), x.e, FALSE)

\* Math.round(x) for a Number 0 < x < 2^30: floor(x + 1/2), exactly
MathRound(x) ==
    LET k == MantissaBits + x.e      \* number of bits left of the binary point
    IN  IF k < 0 THEN 0
        ELSE ToInt(SubSeq(x.m, 1, k)) + x.m[k + 1]

\* const scale = displayWidth / img.naturalWidth;
\* const h = Math.round(img.naturalHeight * scale)
ScaledHeight(naturalW, naturalH, displayW) ==
    MathRound(NumMulInt(naturalH, NumDiv(displayW, naturalW)))

----------------------------------------------------------------------------
(* Values and ids.                                                         *)

NoValue == "none"       \* Python None / JavaScript null
NoText == <<>>          \* a shape without props.richText
NoPos == <<>>           \* place_image called without x and y

\* An id string is pre \o tag \o numbers; pre is the literal prefix the code
\* writes, so that String(id).startsWith(p) for a reserved prefix p is
\* id.pre = p.
ShapeId(pre, tag, a, b, c) == [pre |-> pre, tag |-> tag, a |-> a, b |-> b, c |-> c]

NoId == ShapeId("", "", 0, 0, 0)
MissingId == ShapeId("shape:", "missing", 0, 0, 0)

FramePrefix == "shape:frame-"
LabelPrefix == "shape:label-"
ArrowPrefix == "shape:evolve-arrow-"

StartsWith(id, p) == id.pre = p

\* f"iter{iteration}-"
IterTag(iteration) == IF iteration = 1 THEN "iter1-" ELSE "iter2-"

\* a shape record of the page; halfX / halfY count an extra 0.5 on x / y,
\* z is the shape's place in the z-order
Shape(id, type, x, y, w, h) ==
    [id |-> id, type |-> type, x |-> x, y |-> y, w |-> w, h |-> h,
     halfX |-> 0, halfY |-> 0, assetId |-> NoId, endX |-> 0, text |-> NoText,
     z |-> 0]

\* editor.getShapePageBounds(id)
Bounds(s) == [x |-> s.x, y |-> s.y, w |-> s.w, h |-> s.h]

IdsOf(page) == {page[i].id : i \in 1..Len(page)}

IsImage(s) == s.type = "image"

\* Array.from(editor.getCurrentPageShapes()).filter(s => s.type === 'image')
ImagesOf(page) == SelectSeq(page, IsImage)

\* Array.prototype.sort((a, b) => a.y - b.y): stable, ascending y
InsertAscY(sorted, e) ==
    LET k == Cardinality({i \in 1..Len(sorted) : sorted[i].y <= e.y})
    IN  SubSeq(sorted, 1, k) \o <<e>> \o SubSeq(sorted, k + 1, Len(sorted))

RECURSIVE SortAscY(_)
SortAscY(s) ==
    IF s = <<>> THEN <<>>
    ELSE InsertAscY(SortAscY(SubSeq(s, 1, Len(s) - 1)), s[Len(s)])

\* Array.prototype.sort((a, b) => b.x - a.x): stable, descending x
InsertDescX(sorted, e) ==
    LET k == Cardinality({i \in 1..Len(sorted) : sorted[i].x >= e.x})
    IN  SubSeq(sorted, 1, k) \o <<e>> \o SubSeq(sorted, k + 1, Len(sorted))

RECURSIVE SortDescX(_)
SortDescX(s) ==
    IF s = <<>> THEN <<>>
    ELSE InsertDescX(SortDescX(SubSeq(s, 1, Len(s) - 1)), s[Len(s)])

\* editor.createShape(s): the page enumerates shapes in creation order, the
\* new shape is on top of the z-order
CreateShape(page, s) ==
    LET zs == {page[i].z : i \in 1..Len(page)}
        top == IF zs = {} THEN 0 ELSE CHOOSE v \in zs : \A u \in zs : u <= v
    IN  Append(page, [s EXCEPT !.z = top + 1])

\* editor.sendToBack([id]): the shape goes below every other shape
SendToBack(page, id) ==
    LET zs == {page[i].z : i \in 1..Len(page)}
        low == CHOOSE v \in zs : \A u \in zs : v <= u
    IN  [i \in 1..Len(page) |->
            IF page[i].id = id THEN [page[i] EXCEPT !.z = low - 1] ELSE page[i]]

\* what eval_code returns or raises for a snippet whose result is `result`
\* when it runs: the server's JSON, or the except URLError branch; a socket
\* timeout while waiting for the response is no URLError and leaves
\* eval_code as an exception
EvalCode(t, result) ==
    IF t = "ok" THEN [raised |-> FALSE, requests |-> 1, success |-> TRUE,
                      result |-> result, error |-> NoValue]
    ELSE IF t = "URLError"
         THEN [raised |-> FALSE, requests |-> 1, success |-> FALSE,
               result |-> NoValue, error |-> "URLError"]
         ELSE [raised |-> TRUE, requests |-> 1, success |-> FALSE,
               result |-> NoValue, error |-> NoValue]

\* the record of the last call: operation, arguments, transport outcome,
\* whether it raised, the requests it sent, what it returned
Call(op, args, t, ev, ret) ==
    [op |-> op, args |-> args, transport |-> t, raised |-> ev.raised,
     requests |-> ev.requests, ret |-> IF ev.raised THEN NoValue ELSE ret]

\* the dict eval_code returns
Dict(ev) == [success |-> ev.success, result |-> ev.result, error |-> ev.error]

\* result["result"] if result.get("success") else []
ListOf(ev) == IF ev.success THEN ev.result ELSE <<>>

----------------------------------------------------------------------------
(* place_image                                                             *)

\* let maxBottom = 0; for (const s of existing) { const bottom = s.y +
\* s.props.h; if (bottom > maxBottom) maxBottom = bottom; }
RECURSIVE MaxBottom(_, _)
MaxBottom(existing, maxBottom) ==
    IF existing = <<>> THEN maxBottom
    ELSE LET bottom == existing[1].y + existing[1].h
         IN  MaxBottom(Tail(existing), IF bottom > maxBottom THEN bottom ELSE maxBottom)

\* pos_code: explicit coordinates, or below the lowest image
NextPosition(page, pos) ==
    IF pos # NoPos THEN [x |-> pos[1], y |-> pos[2]]
    ELSE LET existing == ImagesOf(page)
         IN  IF Len(existing) > 0
             THEN [x |-> 100, y |-> MaxBottom(existing, 0) + 160]
             ELSE [x |-> 100, y |-> 100]

Asset(id, name, file) ==
    [id |-> id, name |-> name, src |-> file.path, w |-> file.naturalW, h |-> file.naturalH]

PlaceImage(file, displayWidth, pos, t) ==
    LET shapeId == ShapeId("shape:img-", "", nextId, 0, 0)
        assetId == ShapeId("asset:asset-", "", nextId, 0, 0)
        w  == displayWidth
        h  == ScaledHeight(file.naturalW, file.naturalH, displayWidth)
        p  == NextPosition(canvas, pos)
        img == [Shape(shapeId, "image", p.x, p.y, w, h) EXCEPT !.assetId = assetId]
        result == [shapeId |-> shapeId, w |-> w, h |-> h, yPos |-> p.y, xPos |-> p.x]
        ev == EvalCode(t, result)
    IN  /\ last' = Call("place_image",
                        [file |-> file, displayWidth |-> displayWidth, pos |-> pos],
                        t, ev, Dict(ev))
        /\ IF t = "ok"
           THEN /\ assets' = assets \cup {Asset(assetId, shapeId, file)}
                /\ canvas' = CreateShape(canvas, img)
                /\ nextId' = nextId + 1
           ELSE UNCHANGED <<assets, canvas, nextId>>
        /\ UNCHANGED written

----------------------------------------------------------------------------
(* create_frames                                                           *)

FrameWithoutBottomPadding(id, img, padding, topPadding) ==
    Shape(id, "geo", img.x - padding, img.y - topPadding,
          img.w + padding * 2, img.h + topPadding)

FrameFor(id, img, padding, topPadding) ==
    Shape(id, "geo", img.x - padding, img.y - topPadding,
          img.w + padding * 2, img.h + topPadding + padding)

\* x: img.x + img.props.w / 2, y: img.y - topPadding + 8, autoSize text
LabelFor(id, img, topPadding, text) ==
    [Shape(id, "text", img.x + img.w \div 2, img.y - topPadding + 8, 0, 0)
        EXCEPT !.halfX = img.w % 2, !.text = text]

\* the loop body for images[i] of JavaScript, here images[i + 1]
RECURSIVE FrameLoop(_, _, _, _, _, _, _)
FrameLoop(page, images, i, padding, topPadding, prefix, iterLabel) ==
    IF i >= Len(images) THEN page
    ELSE LET frameId == ShapeId(FramePrefix, prefix, i, 0, 0)
             labelId == ShapeId(LabelPrefix, prefix, i, 0, 0)
             img     == images[i + 1]
             framed  == CreateShape(page, FrameFor(frameId, img, padding, topPadding))
             labeled == CreateShape(framed,
                            LabelFor(labelId, img, topPadding,
                                     <<"Candidate ", i + 1, iterLabel>>))
         IN  FrameLoop(SendToBack(labeled, frameId), images, i + 1,
                       padding, topPadding, prefix, iterLabel)

CreateFrames(padding, topPadding, prefix, iterLabel, t) ==
    LET images == SortAscY(ImagesOf(canvas))
        n      == Len(images)
        result == [frameIds |-> [i \in 1..n |-> ShapeId(FramePrefix, prefix, i - 1, 0, 0)],
                   labelIds |-> [i \in 1..n |-> ShapeId(LabelPrefix, prefix, i - 1, 0, 0)],
                   count |-> n]
        ev == EvalCode(t, result)
    IN  \* the frame and label ids are new to the page
        /\ \A i \in 0..(n - 1) :
              /\ ShapeId(FramePrefix, prefix, i, 0, 0) \notin IdsOf(canvas)
              /\ ShapeId(LabelPrefix, prefix, i, 0, 0) \notin IdsOf(canvas)
        /\ last' = Call("create_frames",
                        [padding |-> padding, topPadding |-> topPadding, prefix |-> prefix],
                        t, ev, Dict(ev))
        /\ canvas' = IF t = "ok"
                     THEN FrameLoop(canvas, images, 0, padding, topPadding, prefix, iterLabel)
                     ELSE canvas
        /\ UNCHANGED <<assets, written, nextId>>

----------------------------------------------------------------------------
(* detect_annotations                                                      *)

\* sb.x < fb.x + fb.w && sb.x + sb.w > fb.x && sb.y < fb.y + fb.h &&
\* sb.y + sb.h > fb.y
IntersectsOrTouches(sb, fb) ==
    /\ sb.x <= fb.x + fb.w
    /\ sb.x + sb.w >= fb.x
    /\ sb.y <= fb.y + fb.h
    /\ sb.y + sb.h >= fb.y

Intersects(sb, fb) ==
    /\ sb.x < fb.x + fb.w
    /\ sb.x + sb.w > fb.x
    /\ sb.y < fb.y + fb.h
    /\ sb.y + sb.h > fb.y

FramesOf(page) == SelectSeq(page, LAMBDA s : StartsWith(s.id, FramePrefix))

LabelsOf(page) == SelectSeq(page, LAMBDA s : StartsWith(s.id, LabelPrefix))

ExcludeIds(page) ==
    IdsOf(FramesOf(page)) \cup IdsOf(LabelsOf(page)) \cup IdsOf(ImagesOf(page))
        \cup IdsOf(SelectSeq(page, LAMBDA s : StartsWith(s.id, ArrowPrefix)))

AnnotationsIn(page, frame) ==
    SelectSeq(page, LAMBDA s : /\ s.id \notin ExcludeIds(page)
                               /\ Intersects(Bounds(s), Bounds(frame)))

RECURSIVE TextsOf(_)
TextsOf(shapes) ==
    IF shapes = <<>> THEN <<>> ELSE shapes[1].text \o TextsOf(Tail(shapes))

\* the entry pushed for frames[i] of JavaScript, here frames[i + 1]
DetectEntry(page, i) ==
    LET frames == FramesOf(page)
        images == SortAscY(ImagesOf(page))
        annotations == AnnotationsIn(page, frames[i + 1])
    IN  [candidateIndex |-> i,
         imageId |-> IF i + 1 <= Len(images) THEN images[i + 1].id ELSE NoId,
         frameId |-> frames[i + 1].id,
         hasAnnotations |-> Len(annotations) > 0,
         annotationCount |-> Len(annotations),
         textAnnotations |-> TextsOf(annotations),
         annotationIds |-> [k \in 1..Len(annotations) |-> annotations[k].id]]

DetectResults(page) == [k \in 1..Len(FramesOf(page)) |-> DetectEntry(page, k - 1)]

DetectAnnotations(t) ==
    LET ev == EvalCode(t, DetectResults(canvas))
    IN  /\ last' = Call("detect_annotations", NoValue, t, ev, ListOf(ev))
        /\ UNCHANGED <<canvas, assets, written, nextId>>

----------------------------------------------------------------------------
(* place_evolved_image                                                     *)

\* return 'original not found: {orig_shape_id}'
NotFound(origShapeId) == [notFound |-> origShapeId]

FindOrigOrFirst(page, origShapeId) ==
    LET hit == SelectSeq(ImagesOf(page), LAMBDA s : s.id = origShapeId)
    IN  IF hit = <<>> /\ ImagesOf(page) # <<>> THEN <<ImagesOf(page)[1]>> ELSE hit

\* allImages.find(s => String(s.id) === '{orig_shape_id}'), as a sequence
\* that is empty when find returns undefined
FindOrig(page, origShapeId) ==
    SelectSeq(ImagesOf(page), LAMBDA s : s.id = origShapeId)

EvolvedPositionWithoutGap(orig, gap) == [x |-> orig.x + orig.w, y |-> orig.y]

\* newX = orig.x + orig.props.w + gap, newY = orig.y
EvolvedPosition(orig, gap) == [x |-> orig.x + orig.w + gap, y |-> orig.y]

\* the arrow's end: { x: gap - 20, y: 0 }, relative to its start
ArrowEnd(gap) == gap - 20

PlaceEvolvedImage(file, origShapeId, iteration, candidateNum, gap, t) ==
    LET i == candidateNum - 1
        found == FindOrig(canvas, origShapeId)
        orig == found[1]
        displayW == orig.w
        displayH == ScaledHeight(file.naturalW, file.naturalH, displayW)
        newX == EvolvedPosition(orig, gap).x
        newY == EvolvedPosition(orig, gap).y
        newShapeId == ShapeId("shape:evolved-", "", iteration, candidateNum, nextId)
        newAssetId == ShapeId("asset:evolved-", "", iteration, candidateNum, nextId)
        arrowId == ShapeId(ArrowPrefix, "", iteration, i, 0)
        frameId == ShapeId(FramePrefix, IterTag(iteration), i, 0, 0)
        labelId == ShapeId(LabelPrefix, IterTag(iteration), i, 0, 0)
        img == [Shape(newShapeId, "image", newX, newY, displayW, displayH)
                    EXCEPT !.assetId = newAssetId]
        arrow == [Shape(arrowId, "arrow", orig.x + orig.w, orig.y + orig.h \div 2, 0, 0)
                    EXCEPT !.halfY = orig.h % 2, !.endX = ArrowEnd(gap),
                           !.text = <<"Iter ", iteration>>]
        padding == 60
        topPadding == 80
        frame == Shape(frameId, "geo", newX - padding, newY - topPadding,
                       displayW + padding * 2, displayH + topPadding + padding)
        label == [Shape(labelId, "text", newX + displayW \div 2, newY - topPadding + 8, 0, 0)
                    EXCEPT !.halfX = displayW % 2,
                           !.text = <<"Candidate ", candidateNum, " - Iter ", iteration>>]
        result == IF found = <<>> THEN NotFound(origShapeId)
                  ELSE [newShapeId |-> newShapeId, newX |-> newX, newY |-> newY,
                        displayW |-> displayW, displayH |-> displayH]
        ev == EvalCode(t, result)
    IN  \* the arrow, frame and label ids are new to the page
        /\ found # <<>> => {arrowId, frameId, labelId} \cap IdsOf(canvas) = {}
        /\ last' = Call("place_evolved_image",
                        [file |-> file, origShapeId |-> origShapeId, iteration |-> iteration,
                         candidateNum |-> candidateNum, gap |-> gap],
                        t, ev, Dict(ev))
        /\ IF t = "ok" /\ found # <<>>
           THEN /\ assets' = assets \cup
                        {Asset(newAssetId, ShapeId("evolved-", "", iteration, candidateNum, 0),
                               file)}
                /\ canvas' = SendToBack(
                                 CreateShape(CreateShape(CreateShape(CreateShape(
                                     canvas, img), arrow), frame), label),
                                 frameId)
                /\ nextId' = nextId + 1
           ELSE UNCHANGED <<assets, canvas, nextId>>
        /\ UNCHANGED written

----------------------------------------------------------------------------
(* get_images, get_latest_images                                           *)

ImageInfo(s) ==
    [id |-> s.id, x |-> s.x, y |-> s.y, w |-> s.w, h |-> s.h, assetId |-> s.assetId]

InfoOf(shapes) == [k \in 1..Len(shapes) |-> ImageInfo(shapes[k])]

GetImages(t) ==
    LET ev == EvalCode(t, InfoOf(SortAscY(ImagesOf(canvas))))
    IN  /\ last' = Call("get_images", NoValue, t, ev, ListOf(ev))
        /\ UNCHANGED <<canvas, assets, written, nextId>>

BucketSize == 50

RowKeyTruncated(y) == (y \div BucketSize) * BucketSize

\* Math.round(img.y / 50) * 50; Math.round rounds a half up, and for an
\* integer y the quotient y / 50 is a half exactly when 2y + 50 divides by 100
RowKey(y) == ((2 * y + BucketSize) \div (2 * BucketSize)) * BucketSize

\* the keys of rows in the order the loop inserts them
RECURSIVE KeysInserted(_, _)
KeysInserted(images, seen) ==
    IF images = <<>> THEN seen
    ELSE LET k == RowKey(images[1].y)
         IN  KeysInserted(Tail(images),
                          IF \E j \in 1..Len(seen) : seen[j] = k THEN seen
                          ELSE Append(seen, k))

\* Object.values(rows) visits the keys that are array indices ("0", "50",
\* ...) in ascending order, then the others ("-50", ...) as inserted
ObjectKeys(inserted) ==
    LET idx == {inserted[j] : j \in {j \in 1..Len(inserted) : inserted[j] >= 0}}
        asc == [r \in 1..Cardinality(idx) |->
                   CHOOSE k \in idx : Cardinality({m \in idx : m < k}) = r - 1]
    IN  asc \o SelectSeq(inserted, LAMBDA k : k < 0)

LatestOfRow(images, key) ==
    LET row == SortDescX(SelectSeq(images, LAMBDA s : RowKey(s.y) = key))
    IN  ImageInfo(row[1])

LatestImages(page) ==
    LET images == ImagesOf(page)
        keys   == ObjectKeys(KeysInserted(images, <<>>))
    IN  SortAscY([k \in 1..Len(keys) |-> LatestOfRow(images, keys[k])])

GetLatestImages(t) ==
    LET ev == EvalCode(t, LatestImages(canvas))
    IN  /\ last' = Call("get_latest_images", NoValue, t, ev, ListOf(ev))
        /\ UNCHANGED <<canvas, assets, written, nextId>>

----------------------------------------------------------------------------
(* screenshot_region, export_clean_image, clear_canvas, zoom_to_fit        *)

\* Path(output_path).write_bytes(data)
WriteBytes(files, path, data) ==
    {f \in files : f.path # path} \cup {[path |-> path, data |-> data]}

ScreenshotRegion(frameId, outputPath, t) ==
    LET hit == SelectSeq(canvas, LAMBDA s : s.id = frameId)
        \* getScreenshot(...): a data URL of the pixels in the bounds
        result == IF hit = <<>> THEN NoValue ELSE "data:image/png;screenshot"
        ev == EvalCode(t, result)
        ok == ev.success /\ ev.result # NoValue
    IN  /\ last' = Call("screenshot_region", [frameId |-> frameId, outputPath |-> outputPath],
                        t, ev, ok)
        /\ written' = IF ~ev.raised /\ ok
                      THEN WriteBytes(written, outputPath, ev.result) ELSE written
        /\ UNCHANGED <<canvas, assets, nextId>>

ExportCleanImage(imageShapeId, outputPath, t) ==
    LET hit == SelectSeq(ImagesOf(canvas), LAMBDA s : s.id = imageShapeId)
        asset == {a \in assets : hit # <<>> /\ a.id = hit[1].assetId}
        result == IF asset = {} THEN NoValue ELSE (CHOOSE a \in asset : TRUE).src
        ev == EvalCode(t, result)
        ok == ev.success /\ ev.result # NoValue
    IN  /\ last' = Call("export_clean_image",
                        [imageShapeId |-> imageShapeId, outputPath |-> outputPath],
                        t, ev, ok)
        /\ written' = IF ~ev.raised /\ ok
                      THEN WriteBytes(written, outputPath, ev.result) ELSE written
        /\ UNCHANGED <<canvas, assets, nextId>>

ClearCanvas(t) ==
    LET ev == EvalCode(t, [cleared |-> Len(canvas)])
    IN  /\ last' = Call("clear_canvas", NoValue, t, ev, Dict(ev))
        /\ canvas' = IF t = "ok" THEN <<>> ELSE canvas
        /\ UNCHANGED <<assets, written, nextId>>

ZoomToFit(t) ==
    LET ev == EvalCode(t, "ok")
    IN  /\ last' = Call("zoom_to_fit", NoValue, t, ev, Dict(ev))
        /\ UNCHANGED <<canvas, assets, written, nextId>>

----------------------------------------------------------------------------
(* The user of the editor draws a shape on the page.                       *)

IsUserShape(s) == s.id.pre = "shape:"

UserDraw(type, b, text) ==
    LET s == [Shape(ShapeId("shape:", "", nextId, 0, 0), type, b.x, b.y, b.w, b.h)
                EXCEPT !.text = text]
    IN  /\ canvas' = CreateShape(canvas, s)
        /\ nextId' = nextId + 1
        /\ last' = [op |-> "user_draw", args |-> NoValue, transport |-> "ok",
                    raised |-> FALSE, requests |-> 0, ret |-> NoValue]
        /\ UNCHANGED <<assets, written>>

----------------------------------------------------------------------------
(* Bounds and inputs.                                                      *)

MaxImages == 3          \* images on the page
MaxUserShapes == 1      \* shapes the user draws
MaxIds == 3             \* ids generated where the page can be cleared

\* image files: path, naturalWidth and naturalHeight of the decoded picture
FileA == [path |-> "a.png", naturalW |-> 800, naturalH |-> 600]
FileB == [path |-> "b.png", naturalW |-> 928, naturalH |-> 145]
Files == {FileA, FileB}

DefaultDisplayWidth == 400
DefaultPadding == 60
DefaultTopPadding == 80
DefaultGap == 120

\* explicit x, y of place_image
Positions == {NoPos, <<100, -700>>, <<700, 104>>, <<700, 130>>}
\* padding, top_padding of create_frames
Paddings == {<<DefaultPadding, DefaultTopPadding>>, <<10, 20>>}
CandidateNums == {1, 2}
OutputPaths == {"out.png"}
\* what the user draws: type, page bounds, text
UserShapes ==
    { [type |-> "draw", b |-> [x |-> 200, y |-> 200, w |-> 50, h |-> 50], text |-> NoText],
      [type |-> "text", b |-> [x |-> 560, y |-> 100, w |-> 50, h |-> 50], text |-> <<"more blue">>] }
\* outcome of urlopen: a response, a URLError (unreachable, refused), or a
\* socket timeout while waiting for the response
Transports == {"ok", "URLError", "timeout"}

ImageIds == IdsOf(ImagesOf(canvas))

CanPlace == Len(ImagesOf(canvas)) < MaxImages

Init ==
    /\ canvas = <<>>
    /\ assets = {}
    /\ last = [op |-> "none", args |-> NoValue, transport |-> "ok", raised |-> FALSE,
               requests |-> 0, ret |-> NoValue]
    /\ written = {}
    /\ nextId = 1

\* every operation, with every transport outcome
Next ==
    \/ \E t \in Transports :
          CanPlace /\ nextId <= MaxIds /\ PlaceImage(FileA, DefaultDisplayWidth, NoPos, t)
    \/ \E t \in Transports :
          CreateFrames(DefaultPadding, DefaultTopPadding, "", "", t)
    \/ \E t \in Transports : DetectAnnotations(t)
    \/ \E o \in ImageIds \cup {MissingId}, c \in CandidateNums, t \in Transports :
          CanPlace /\ nextId <= MaxIds /\ PlaceEvolvedImage(FileA, o, 1, c, DefaultGap, t)
    \/ \E t \in Transports : GetImages(t)
    \/ \E t \in Transports : GetLatestImages(t)
    \/ \E f \in IdsOf(FramesOf(canvas)) \cup {MissingId}, path \in OutputPaths, t \in Transports :
          ScreenshotRegion(f, path, t)
    \/ \E o \in ImageIds \cup {MissingId}, path \in OutputPaths, t \in Transports :
          ExportCleanImage(o, path, t)
    \/ \E t \in Transports : ClearCanvas(t)
    \/ \E t \in Transports : ZoomToFit(t)

Spec == Init /\ [][Next]_vars

\* placement and row lookup, every request answered
NextLayout ==
    \/ \E pos \in Positions :
          CanPlace /\ PlaceImage(FileA, DefaultDisplayWidth, pos, "ok")
    \/ CanPlace /\ PlaceImage(FileB, DefaultDisplayWidth, NoPos, "ok")
    \/ \E o \in ImageIds, c \in CandidateNums :
          CanPlace /\ PlaceEvolvedImage(FileA, o, 1, c, DefaultGap, "ok")
    \/ \E o \in IdsOf(FramesOf(canvas)) \cup {MissingId} :
          PlaceEvolvedImage(FileA, o, 1, 1, DefaultGap, "ok")
    \/ GetLatestImages("ok")

SpecLayout == Init /\ [][NextLayout]_vars

\* frames and annotations, every request answered
NextFrames ==
    \/ CanPlace /\ PlaceImage(FileA, DefaultDisplayWidth, NoPos, "ok")
    \/ \E pad \in Paddings : CreateFrames(pad[1], pad[2], "", "", "ok")
    \/ \E o \in ImageIds, c \in CandidateNums :
          CanPlace /\ PlaceEvolvedImage(FileA, o, 1, c, DefaultGap, "ok")
    \/ \E u \in UserShapes :
          /\ Len(SelectSeq(canvas, IsUserShape)) < MaxUserShapes
          /\ UserDraw(u.type, u.b, u.text)
    \/ DetectAnnotations("ok")

SpecFrames == Init /\ [][NextFrames]_vars
----------------------------------------------------------------------------
(* Properties.                                                             *)

\* C1: place_image without x/y puts the new image at (100, 100) on a page
\* without images, and otherwise at x = 100, y = (the greatest y + h of the
\* images on the page) + 160.
C1_StackingPosition ==
    [][(/\ last'.op = "place_image"
        /\ last'.transport = "ok"
        /\ last'.args.pos = NoPos
        /\ Len(canvas') = Len(canvas) + 1)
       => LET bottoms == {canvas[i].y + canvas[i].h :
                             i \in {i \in 1..Len(canvas) : canvas[i].type = "image"}}
              new == canvas'[Len(canvas')]
          IN  /\ new.type = "image"
              /\ new.x = 100
              /\ new.y = IF bottoms = {} THEN 100
                         ELSE (CHOOSE b \in bottoms : \A c \in bottoms : c <= b) + 160
      ]_vars

\* C2: for every frame, the annotations detect_annotations reports are
\* exactly the shapes that are no image, carry no reserved id prefix and
\* whose bounds strictly intersect the frame's bounds; every frame gets an
\* entry.
C2_AnnotationsAreOverlappingUserShapes ==
    (last.op = "detect_annotations" /\ last.transport = "ok") =>
        LET shapes == {canvas[i] : i \in 1..Len(canvas)}
            frames == {s \in shapes : s.id.pre = "shape:frame-"}
            scaffold(s) ==
                \/ s.type = "image"
                \/ s.id.pre \in {"shape:frame-", "shape:label-", "shape:evolve-arrow-"}
            overlap(s, f) ==
                /\ s.x < f.x + f.w
                /\ f.x < s.x + s.w
                /\ s.y < f.y + f.h
                /\ f.y < s.y + s.h
        IN  /\ Len(last.ret) = Cardinality(frames)
            /\ {last.ret[k].frameId : k \in 1..Len(last.ret)} = {f.id : f \in frames}
            /\ \A k \in 1..Len(last.ret) :
                  LET e == last.ret[k]
                      f == CHOOSE f \in frames : f.id = e.frameId
                      expected == {s.id : s \in {s \in shapes : ~scaffold(s) /\ overlap(s, f)}}
                  IN  /\ {e.annotationIds[j] : j \in 1..Len(e.annotationIds)} = expected
                      /\ e.annotationCount = Cardinality(expected)
                      /\ e.hasAnnotations = (expected # {})

\* a detection that reports an annotation in some frame, and leaves out a
\* user shape that touches the right edge of a frame
C2_Witness ==
    /\ last.op = "detect_annotations"
    /\ last.transport = "ok"
    /\ \E k \in 1..Len(last.ret) : last.ret[k].annotationCount > 0
    /\ \E k \in 1..Len(last.ret), i \in 1..Len(canvas), j \in 1..Len(canvas) :
          /\ canvas[j].id = last.ret[k].frameId
          /\ canvas[i].id.pre = "shape:"
          /\ canvas[i].x = canvas[j].x + canvas[j].w
          /\ \A n \in 1..Len(last.ret[k].annotationIds) :
                last.ret[k].annotationIds[n] # canvas[i].id

\* C3: the frame create_frames (padding p, top padding t) and
\* place_evolved_image (60, 80) create for an image (x, y, w, h) is
\* (x - p, y - t, w + 2p, h + t + p), and it strictly contains the image.
C3_FrameRegionContainsImage ==
    [][LET old == 1..Len(canvas)
           new == (Len(canvas) + 1)..Len(canvas')
           framed(r, f, p, t) ==
               /\ f.id.pre = "shape:frame-"
               /\ f.x = r.x - p /\ f.y = r.y - t
               /\ f.w = r.w + 2 * p /\ f.h = r.h + t + p
               /\ f.x < r.x /\ f.y < r.y
               /\ f.x + f.w > r.x + r.w /\ f.y + f.h > r.y + r.h
       IN  /\ (last'.op = "create_frames" /\ last'.transport = "ok")
                => \A i \in old : canvas[i].type = "image"
                      => \E j \in new : framed(canvas[i], canvas'[j],
                                               last'.args.padding, last'.args.topPadding)
           /\ (last'.op = "place_evolved_image" /\ Len(canvas') > Len(canvas))
                => \E i \in new, j \in new :
                      /\ canvas'[i].type = "image"
                      /\ framed(canvas'[i], canvas'[j], 60, 80)
      ]_vars

\* create_frames has framed two images or more, one of them an evolved one
\* that place_evolved_image had framed
C3_Witness ==
    /\ last.op = "create_frames"
    /\ last.transport = "ok"
    /\ last.ret.result.count >= 2
    /\ \E i \in 1..Len(canvas) :
          canvas[i].id.pre = "shape:frame-" /\ canvas[i].id.tag = "iter1-"

\* C4: get_latest_images groups the images by round(y / 50) * 50, returns
\* one image for every bucket that holds an image, an image of greatest x
\* in its bucket, and returns them by ascending y.
C4_LatestPerBucket ==
    LET bucket(y) == CHOOSE k \in {50 * n : n \in -200..200} :
                        2 * k - 50 <= 2 * y /\ 2 * y < 2 * k + 50
        images == {canvas[i] : i \in {i \in 1..Len(canvas) : canvas[i].type = "image"}}
        r == last.ret
    IN  /\ RowKey(100) = 100 /\ RowKey(104) = 100 /\ RowKey(130) = 150
        /\ (last.op = "get_latest_images" /\ last.transport = "ok") =>
              /\ Len(r) = Cardinality({bucket(s.y) : s \in images})
              /\ \A s \in images : \E k \in 1..Len(r) : bucket(r[k].y) = bucket(s.y)
              /\ \A k \in 1..Len(r) :
                    /\ \E s \in images :
                          /\ r[k].id = s.id /\ r[k].x = s.x /\ r[k].y = s.y
                          /\ r[k].w = s.w /\ r[k].h = s.h /\ r[k].assetId = s.assetId
                    /\ \A s \in images : bucket(s.y) = bucket(r[k].y) => s.x <= r[k].x
              /\ \A k \in 1..(Len(r) - 1) : r[k].y <= r[k + 1].y

\* three images in two buckets: two of them share a bucket at different y
C4_Witness ==
    /\ last.op = "get_latest_images"
    /\ last.transport = "ok"
    /\ Len(last.ret) = 2
    /\ \E i \in 1..Len(canvas), j \in 1..Len(canvas) :
          /\ canvas[i].type = "image" /\ canvas[j].type = "image"
          /\ canvas[i].y # canvas[j].y
          /\ canvas[i].x < canvas[j].x
          /\ RowKey(canvas[i].y) = RowKey(canvas[j].y)
          /\ \E k \in 1..2 : last.ret[k].id = canvas[j].id

\* C5: place_evolved_image, when the original exists, creates the new image
\* at x = orig.x + orig.w + gap, y = orig.y with the original's display
\* width, and an arrow from (orig.x + orig.w, orig.y + orig.h / 2) that ends
\* gap - 20 to the right, at or before the new image's left edge.
C5_EvolvedPlacement ==
    [][(last'.op = "place_evolved_image" /\ Len(canvas') > Len(canvas))
       => LET gap == last'.args.gap
              new == (Len(canvas) + 1)..Len(canvas')
          IN  \E o \in 1..Len(canvas), n \in new, a \in new :
                 LET orig == canvas[o]
                     img == canvas'[n]
                     arrow == canvas'[a]
                 IN  /\ orig.type = "image" /\ orig.id = last'.args.origShapeId
                     /\ img.type = "image"
                     /\ img.x = orig.x + orig.w + gap
                     /\ img.y = orig.y
                     /\ img.w = orig.w
                     /\ arrow.type = "arrow"
                     /\ arrow.x = orig.x + orig.w
                     /\ 2 * arrow.y + arrow.halfY = 2 * orig.y + orig.h
                     /\ arrow.endX = gap - 20
                     /\ arrow.x + arrow.endX <= img.x
                     /\ ~(img.x < arrow.x + arrow.endX /\ arrow.x + arrow.endX < img.x + img.w)
      ]_vars

\* an evolved image has been placed next to an original that is itself an
\* evolved image
C5_Witness ==
    /\ last.op = "place_evolved_image"
    /\ last.transport = "ok"
    /\ "newShapeId" \in DOMAIN last.ret.result
    /\ \E i \in 1..Len(canvas) : canvas[i].type = "arrow" /\ canvas[i].halfY = 0
    /\ \E i \in 1..Len(canvas) :
          canvas[i].id = last.args.origShapeId /\ canvas[i].x > 100

\* C6: place_evolved_image with an orig_shape_id that no image on the page
\* has does not raise, returns the not-found value naming the id, and
\* creates no asset, image, arrow, frame or label.
C6_OriginalNotFound ==
    [][(/\ last'.op = "place_evolved_image"
        /\ last'.transport = "ok"
        /\ \A i \in 1..Len(canvas) :
              canvas[i].type = "image" => canvas[i].id # last'.args.origShapeId)
       => /\ ~last'.raised
          /\ last'.ret.result = [notFound |-> last'.args.origShapeId]
          /\ canvas' = canvas
          /\ assets' = assets
      ]_vars

\* the call named the id of a frame while the page holds images
C6_Witness ==
    /\ last.op = "place_evolved_image"
    /\ last.transport = "ok"
    /\ "notFound" \in DOMAIN last.ret.result
    /\ last.ret.result.notFound.pre = "shape:frame-"
    /\ \E i \in 1..Len(canvas) : canvas[i].type = "image"

\* C7: every call sends one request; when the transport fails the call does
\* not raise, eval_code's outcome has success = false and an error, and the
\* operations relay it: a dict, an empty list, or False and no file.
C7_TransportFailureReported ==
    [][last'.op \notin {"none", "user_draw"}
       => /\ last'.requests = 1
          /\ last'.transport # "ok"
               => /\ ~last'.raised
                  /\ canvas' = canvas /\ written' = written
                  /\ last'.op \in {"get_images", "detect_annotations", "get_latest_images"}
                        => last'.ret = <<>>
                  /\ last'.op \in {"screenshot_region", "export_clean_image"}
                        => last'.ret = FALSE
                  /\ last'.op \in {"place_image", "create_frames", "place_evolved_image",
                                   "clear_canvas", "zoom_to_fit"}
                        => last'.ret.success = FALSE /\ last'.ret.error # NoValue
      ]_vars

\* C8: a placed image has the requested display width, and its display
\* height is naturalHeight * displayWidth / naturalWidth rounded half up;
\* an evolved image follows the same rule with the original's width.
C8_DisplayHeightRounding ==
    /\ \A i \in 1..Len(canvas) : canvas[i].type = "image" =>
          \E a \in assets :
             /\ a.id = canvas[i].assetId
             /\ canvas[i].h = (2 * a.h * canvas[i].w + a.w) \div (2 * a.w)
    /\ (last.op = "place_image" /\ last.transport = "ok")
          => last.ret.result.w = last.args.displayWidth

\* C9: after place_image calls without explicit coordinates and successful
\* place_evolved_image calls, no two images on the page overlap.
C9_NoImageOverlap ==
    \A i \in 1..Len(canvas), j \in 1..Len(canvas) :
        (i < j /\ canvas[i].type = "image" /\ canvas[j].type = "image")
        => ~(/\ canvas[i].x < canvas[j].x + canvas[j].w
             /\ canvas[j].x < canvas[i].x + canvas[i].w
             /\ canvas[i].y < canvas[j].y + canvas[j].h
             /\ canvas[j].y < canvas[i].y + canvas[i].h)

\* C10: every entry of detect_annotations pairs a frame with the image the
\* frame was created around: the image with the entry's imageId lies in the
\* region of the shape with the entry's frameId.
C10_EntryPairsFrameWithItsImage ==
    (last.op = "detect_annotations" /\ last.transport = "ok") =>
        \A k \in 1..Len(last.ret) :
            \E i \in 1..Len(canvas), j \in 1..Len(canvas) :
               /\ canvas[i].type = "image" /\ canvas[i].id = last.ret[k].imageId
               /\ canvas[j].id = last.ret[k].frameId
               /\ canvas[j].x <= canvas[i].x
               /\ canvas[j].y <= canvas[i].y
               /\ canvas[i].x + canvas[i].w <= canvas[j].x + canvas[j].w
               /\ canvas[i].y + canvas[i].h <= canvas[j].y + canvas[j].h
====
